---- MODULE Spec2Model ----
(***************************************************************************)
(* A model of download.py: the downloader command line (download_videos),  *)
(* the video merge (ffmpeg_concat), the subtitle merge (srt_concat), the   *)
(* ground-truth generation (gt_gen), the directory walk (combine_module,   *)
(* concat_videos) and the CLI dispatch (main).                             *)
(*                                                                         *)
(* Each function is a state machine of its own over its own variables;     *)
(* one specification per function draws the function's inputs in its       *)
(* initial states and leaves the other functions' variables idle.          *)
(***************************************************************************)
EXTENDS Integers, Sequences, FiniteSets, TLC

VARIABLES
    \* gt_gen
    gt_pc, gt_arg, gt_durations, gt_t, gt_dict, gt_file,
    \* srt_concat
    srt_pc, srts, srt_durations, srt_i, offset, all_subs, srt_file,
    \* the directory tree under config["--path"], in the order os.walk and
    \* glob enumerate it
    fs,
    \* concat_videos
    cv_pc, classes, cl, modules,
    \* combine_module
    mod_pc, mod_name, sections, mod_video_list, mod_srt_list, durations,
    \* ffmpeg_concat
    ff_i, temp_files, duration,
    \* the files written under config["output_path"]
    outputs,
    \* ghosts: the calls made, the modules during which the media tool exited
    \* non-zero, the modules enumerated, the modules combine_module returned
    \* from, and what raised
    calls, failed, seen, combined, raised_by,
    \* download_videos
    dl_pc, config, dl_items, args, dl_classes, dl_stdout, return_code,
    \* main
    main_pc, mode, main_error

gtVars == <<gt_pc, gt_arg, gt_durations, gt_t, gt_dict, gt_file>>
srtVars == <<srt_pc, srts, srt_durations, srt_i, offset, all_subs, srt_file>>
cvVars == <<fs, cv_pc, classes, cl, modules>>
modVars == <<mod_pc, mod_name, sections, mod_video_list, mod_srt_list, durations>>
ffVars == <<ff_i, temp_files, duration>>
ghostVars == <<outputs, calls, failed, seen, combined, raised_by>>
walkVars == <<cvVars, modVars, ffVars, ghostVars>>
dlVars == <<dl_pc, config, dl_items, args, dl_classes, dl_stdout, return_code>>
mainVars == <<main_pc, mode, main_error>>

vars == <<gtVars, srtVars, walkVars, dlVars, mainVars>>

(***************************************************************************)
(* Bounds of the model.                                                    *)
(***************************************************************************)
\* the longest list of videos of one module
MaxVideos == 3
\* the longest video, in half milliseconds
MaxDur == 2
\* the most subtitle files handed to one subtitle merge
MaxSrts == 2
\* the most cues of one subtitle file
MaxCues == 2
\* the most cues of all the subtitle files of one merge
MaxTotalCues == 3
\* the most section directories of one module
MaxSections == 2
\* the most course directories under the base directory
MaxCourses == 2
\* the most module directories of the whole tree of a traversal
MaxTreeModules == 2
\* the most keys of the configuration
MaxKeys == 3
\* the most lines of the list file
MaxIds == 2
\* the most lines the downloader prints
MaxLines == 2

(***************************************************************************)
(* Helpers.                                                                *)
(***************************************************************************)
None == "None"

\* sequences over S of length lo..hi
SeqsOf(S, lo, hi) == UNION {[1..n -> S] : n \in lo..hi}

\* the sum of the first k elements of the sequence s
RECURSIVE PrefixSum(_, _)
PrefixSum(s, k) == IF k = 0 THEN 0 ELSE PrefixSum(s, k - 1) + s[k]

\* the empty mapping
EmptyMap == [k \in {} |-> None]

\* d[k] = v of a Python dict: a new key, or the value of an existing one replaced
DictSet(d, k, v) == [x \in DOMAIN d \cup {k} |-> IF x = k THEN v ELSE d[x]]

(***************************************************************************)
(* gt_gen (download.py 142-153).  A duration is the float of ffprobe's     *)
(* six-decimal string; it is held as its whole number of microseconds, and *)
(* a sum of floats as the sum of these (the rounding of the float addition *)
(* is not modelled).  json.dumps writes a float key t as repr(t).          *)
(***************************************************************************)
\* the durations of a video: multiples of half a millisecond
Durs == {h * 500 : h \in 0..MaxDur}

\* the digits of n / 10^w after the point, the zeros at the end dropped
RECURSIVE FracDigits(_, _)
FracDigits(n, w) ==
    IF n = 0 THEN ""
    ELSE ToString(n \div w) \o FracDigits(n % w, w \div 10)

\* repr of the float of t microseconds, in seconds: 1000000 -> "1.0",
\* 1500 -> "0.0015" (repr uses no exponent from 0.0001 up)
float_repr(t) ==
    ToString(t \div 1000000) \o "." \o
    (IF t % 1000000 = 0 THEN "0" ELSE FracDigits(t % 1000000, 100000))

\* json.dumps of a dict with float keys: keys become their repr strings
json_dumps(d) == [s \in {float_repr(k) : k \in DOMAIN d} |->
                    d[CHOOSE k \in DOMAIN d : float_repr(k) = s]]

\* durations[:-1] kept whole: the last video's length is not dropped
DropLastKeepAll(s) == s

\* durations[:-1]
DropLast(s) == IF Len(s) = 0 THEN s ELSE SubSeq(s, 1, Len(s) - 1)

SrtIdle ==
    /\ srt_pc = "idle"
    /\ srts = <<>>
    /\ srt_durations = <<>>
    /\ srt_i = 0
    /\ offset = 0
    /\ all_subs = <<>>
    /\ srt_file = None

\* no module entered, nothing written, nothing called
WalkFresh ==
    /\ cl = None
    /\ modules = <<>>
    /\ mod_pc = "idle"
    /\ mod_name = None
    /\ sections = <<>>
    /\ mod_video_list = <<>>
    /\ mod_srt_list = <<>>
    /\ durations = <<>>
    /\ ff_i = 0
    /\ temp_files = <<>>
    /\ duration = <<>>
    /\ outputs = {}
    /\ calls = {}
    /\ failed = {}
    /\ seen = {}
    /\ combined = {}
    /\ raised_by = None

WalkIdle ==
    /\ fs = <<>>
    /\ cv_pc = "idle"
    /\ classes = <<>>
    /\ WalkFresh

DlIdle ==
    /\ dl_pc = "idle"
    /\ config = <<>>
    /\ dl_items = <<>>
    /\ args = <<>>
    /\ dl_classes = <<>>
    /\ dl_stdout = 0
    /\ return_code = None

MainIdle ==
    /\ main_pc = "idle"
    /\ mode = None
    /\ main_error = None

GtIdle ==
    /\ gt_pc = "idle"
    /\ gt_arg = <<>>
    /\ gt_durations = <<>>
    /\ gt_t = 0
    /\ gt_dict = EmptyMap
    /\ gt_file = None

\* the call gt_gen(durations, output_path): gt_dict = {}, t = 0.0, the slice
GtInit ==
    /\ SrtIdle
    /\ WalkIdle
    /\ DlIdle
    /\ MainIdle
    /\ gt_pc = "loop"
    /\ gt_arg \in SeqsOf(Durs, 1, MaxVideos)
    /\ gt_durations = DropLast(gt_arg)
    /\ gt_t = 0
    /\ gt_dict = EmptyMap
    /\ gt_file = None

\* one iteration of "for dur in durations"
GtLoop ==
    /\ gt_pc = "loop"
    /\ gt_durations # <<>>
    /\ gt_dict' = DictSet(gt_dict, gt_t, "dummy")
    /\ gt_t' = gt_t + Head(gt_durations)
    /\ gt_durations' = Tail(gt_durations)
    /\ UNCHANGED <<gt_pc, gt_arg, gt_file>>
    /\ UNCHANGED <<srtVars, walkVars, dlVars, mainVars>>

\* the loop is over: fp.write(json.dumps(gt_dict))
GtWrite ==
    /\ gt_pc = "loop"
    /\ gt_durations = <<>>
    /\ gt_file' = json_dumps(gt_dict)
    /\ gt_pc' = "done"
    /\ UNCHANGED <<gt_arg, gt_durations, gt_t, gt_dict>>
    /\ UNCHANGED <<srtVars, walkVars, dlVars, mainVars>>

GtNext == GtLoop \/ GtWrite

SpecGt == GtInit /\ [][GtNext]_vars

(***************************************************************************)
(* C1                                                                      *)
(***************************************************************************)
\* the keys the claim names: repr of the prefix sums 0, d0, ..., d0+...+d(n-2)
GtClaimedKeys == {float_repr(PrefixSum(gt_arg, k)) : k \in 0..(Len(gt_arg) - 2)}

GtDistinctPrefixes ==
    \A i, j \in 0..(Len(gt_arg) - 2) :
        i # j => PrefixSum(gt_arg, i) # PrefixSum(gt_arg, j)

CueShapes == {<<0, 1000, "a">>, <<1000, 2000, "b">>, <<0, 1000, "">>, <<2000, 1000, "c">>}

\* the durations of a video: half a millisecond, one millisecond
SrtDurs == {500, 1000}

\* list(srt.parse(f)) of the file at position i (from 1) holding the shapes sh
ParsedFile(i, sh) ==
    [k \in 1..Len(sh) |->
        [index |-> k, start |-> sh[k][1], end |-> sh[k][2], content |-> sh[k][3],
         src |-> <<i, k>>]]

RECURSIVE TotalCues(_)
TotalCues(files) == IF files = <<>> THEN 0 ELSE Len(Head(files)) + TotalCues(Tail(files))

\* the subtitle files a merge may be handed
SrtInputs ==
    {[i \in 1..Len(f) |-> ParsedFile(i, f[i])] :
        f \in {g \in SeqsOf(SeqsOf(CueShapes, 0, MaxCues), 0, MaxSrts) :
                 TotalCues(g) <= MaxTotalCues}}

\* only sub.start is shifted
ShiftStartOnly(sub, off) == [sub EXCEPT !.start = @ + off]

\* sub.start += timedelta(seconds=offset); sub.end += timedelta(seconds=offset)
Shift(sub, off) == [sub EXCEPT !.start = @ + off, !.end = @ + off]

\* Subtitle.__lt__ of the srt library: by (start, end, index)
SubLess(a, b) ==
    \/ a.start < b.start
    \/ a.start = b.start /\ a.end < b.end
    \/ a.start = b.start /\ a.end = b.end /\ a.index < b.index

\* sorted(): stable, a cue goes after every cue it is not less than
RECURSIVE InsertSorted(_, _)
InsertSorted(s, x) ==
    IF s = <<>> THEN <<x>>
    ELSE IF SubLess(x, s[Len(s)]) THEN Append(InsertSorted(SubSeq(s, 1, Len(s) - 1), x), s[Len(s)])
    ELSE Append(s, x)

RECURSIVE Sorted(_)
Sorted(s) == IF s = <<>> THEN <<>> ELSE InsertSorted(Sorted(SubSeq(s, 1, Len(s) - 1)), s[Len(s)])

\* the cues are left in the order given
NotSorted(s) == s

\* sorted(subtitles) of srt.sort_and_reindex
SortSubs(s) == Sorted(s)

\* _should_skip_sub of the srt library: a negative start, blank text, or a
\* start after the end
ShouldSkip(sub) == sub.start < 0 \/ sub.content = "" \/ sub.start > sub.end

RECURSIVE Reindex(_, _)
\* the loop of srt.sort_and_reindex over the sorted cues: a skipped cue is left
\* out, the others are numbered from 1
Reindex(s, done) ==
    IF s = <<>> THEN done
    ELSE IF ShouldSkip(Head(s)) THEN Reindex(Tail(s), done)
    ELSE Reindex(Tail(s), Append(done, [Head(s) EXCEPT !.index = Len(done) + 1]))

\* timedelta_to_srt_timestamp: "HH:MM:SS,mmm", the microseconds cut to
\* milliseconds (microseconds // 1000); held as the number of milliseconds
ToSrtTimestamp(t) == t \div 1000

\* srt.compose(all_subs) with its defaults (reindex=True): sort, skip, number,
\* and write each cue's times as srt timestamps
compose(subs) ==
    LET r == Reindex(SortSubs(subs), <<>>)
    IN  [k \in 1..Len(r) |->
            [index |-> r[k].index, start |-> ToSrtTimestamp(r[k].start),
             end |-> ToSrtTimestamp(r[k].end), content |-> r[k].content,
             src |-> r[k].src]]

\* the call srt_concat(srts, durations, output_path): offset = 0, all_subs = []
SrtInit ==
    /\ GtIdle
    /\ WalkIdle
    /\ DlIdle
    /\ MainIdle
    /\ srt_pc = "loop"
    /\ srts \in SrtInputs
    /\ srt_durations \in SeqsOf(SrtDurs, 1, MaxVideos)
    /\ srt_i = 1
    /\ offset = 0
    /\ all_subs = <<>>
    /\ srt_file = None

\* zip(srts, durations) stops with the shorter of the two
ZipLen(a, b) == IF Len(a) <= Len(b) THEN Len(a) ELSE Len(b)

\* one iteration of "for srt_file, dur in zip(srts, durations)"
SrtLoop ==
    /\ srt_pc = "loop"
    /\ srt_i <= ZipLen(srts, srt_durations)
    /\ LET subs == srts[srt_i]
       IN  all_subs' = all_subs \o [k \in 1..Len(subs) |-> Shift(subs[k], offset)]
    /\ offset' = offset + srt_durations[srt_i]
    /\ srt_i' = srt_i + 1
    /\ UNCHANGED <<srt_pc, srts, srt_durations, srt_file>>
    /\ UNCHANGED <<gtVars, walkVars, dlVars, mainVars>>

\* the loop is over: f.writelines(srt.compose(all_subs))
SrtWrite ==
    /\ srt_pc = "loop"
    /\ srt_i > ZipLen(srts, srt_durations)
    /\ srt_file' = compose(all_subs)
    /\ srt_pc' = "done"
    /\ UNCHANGED <<srts, srt_durations, srt_i, offset, all_subs>>
    /\ UNCHANGED <<gtVars, walkVars, dlVars, mainVars>>

SrtNext == SrtLoop \/ SrtWrite

SpecSrt == SrtInit /\ [][SrtNext]_vars

(***************************************************************************)
(* C2                                                                      *)
(***************************************************************************)
\* the cues of the pairs processed, by where they were parsed from
SrtProcessed ==
    {<<i, k>> : i \in 1..ZipLen(srts, srt_durations), k \in 1..MaxCues + 1} \cap
    {p \in (1..Len(srts)) \X (1..MaxCues + 1) : p[2] <= Len(srts[p[1]])}

\* the entries of the output file that come from the cue at p
SrtOutOf(p) == {n \in 1..Len(srt_file) : srt_file[n].src = p}

\* the cumulative offset of file i, in microseconds
SrtOffsetOf(i) == PrefixSum(srt_durations, i - 1)

SrtAccPos(p) == CHOOSE n \in 1..Len(all_subs) : all_subs[n].src = p

\* C8 (as stated): the cues are written in the order they were accumulated
\* (file order, then cue order within a file), never re-sorted by time.
C8_Original ==
    srt_pc = "done" =>
        \A m, n \in 1..Len(srt_file) :
            m < n => SrtAccPos(srt_file[m].src) < SrtAccPos(srt_file[n].src)

\* C8 (amended): all_subs holds the cues in file order, then cue order within
\* a file; srt.compose, called with its defaults, writes them sorted by
\* (shifted start, shifted end, index), cues equal in all three in the order
\* accumulated, and numbered from 1.  The output is in the order accumulated
\* when that order is already sorted so.
C8_SrtOrder ==
    /\ \A m, n \in 1..Len(all_subs) :
        m < n => \/ all_subs[m].src[1] < all_subs[n].src[1]
                 \/ /\ all_subs[m].src[1] = all_subs[n].src[1]
                    /\ all_subs[m].src[2] < all_subs[n].src[2]
    /\ srt_pc = "done" =>
        /\ \A n \in 1..Len(srt_file) : srt_file[n].index = n
        /\ \A m, n \in 1..Len(srt_file) :
            m < n =>
                LET a == all_subs[SrtAccPos(srt_file[m].src)]
                    b == all_subs[SrtAccPos(srt_file[n].src)]
                IN  \/ SubLess(a, b)
                    \/ /\ ~SubLess(b, a)
                       /\ SrtAccPos(a.src) < SrtAccPos(b.src)
        /\ (\A m, n \in 1..Len(all_subs) : m < n => ~SubLess(all_subs[n], all_subs[m]))
            => \A m, n \in 1..Len(srt_file) :
                 m < n => SrtAccPos(srt_file[m].src) < SrtAccPos(srt_file[n].src)

\* a cue of the second file written before a cue of the first
C8_Witness ==
    /\ srt_pc = "done"
    /\ \E m, n \in 1..Len(srt_file) :
        /\ m < n
        /\ srt_file[m].src[1] = 2
        /\ srt_file[n].src[1] = 1

(***************************************************************************)
(* The directory tree.  A course is [name, modules], a module is           *)
(* [name, sections], a section is [name, videos, srts]: the stems of its   *)
(* *.mp4 and of its *.en.srt files.  Section names and stems are held as   *)
(* their ranks in string order.  A file's path within its module is        *)
(* <<section, stem>>.  A sequence is in the order os.walk yields it.       *)
(***************************************************************************)
COMMON_SKIP_DIRS == {".git"}

Stems == {1, 2}

\* ffmpeg.probe(video)['format']['duration'] of the video with this stem
ProbeDuration(path) == 500 * path[2]

\* the cues of the subtitle file with this stem
SrtContent(path) ==
    IF path[2] = 1 THEN <<(<<0, 1000, "a">>)>>
    ELSE <<(<<0, 1000, "a">>), (<<1000, 2000, "b">>)>>

SectionDirs == [name : 1..MaxSections, videos : SUBSET Stems, srts : SUBSET Stems]

RECURSIVE CountFiles(_, _)
\* the number of videos (kind "videos") or subtitle files (kind "srts") of a
\* list of sections
CountFiles(secs, kind) ==
    IF secs = <<>> THEN 0
    ELSE Cardinality(IF kind = "videos" THEN Head(secs).videos ELSE Head(secs).srts)
         + CountFiles(Tail(secs), kind)

DistinctNames(s) == \A i, j \in 1..Len(s) : i # j => s[i].name # s[j].name

\* the section lists of a module
ModLayouts ==
    {l \in SeqsOf(SectionDirs, 0, MaxSections) :
        /\ DistinctNames(l)
        /\ CountFiles(l, "videos") <= MaxVideos
        /\ CountFiles(l, "srts") <= MaxSrts}

\* the trees of the specification of combine_module: one course of one module
\* of any layout, and one with a .git directory before the course
ModTrees ==
    {<<[name |-> "c1", modules |-> <<[name |-> "m1", sections |-> l]>>]>> : l \in ModLayouts}
    \cup
    {<<[name |-> ".git", modules |-> <<[name |-> "m1", sections |-> <<>>]>>],
       [name |-> "c1", modules |-> <<[name |-> "m1", sections |-> <<>>]>>]>>}

\* the section lists of a module of a traversal: two lectures with their
\* subtitles, or a section with no video
WalkLayouts ==
    {<<[name |-> 1, videos |-> {1, 2}, srts |-> {1, 2}]>>,
     <<[name |-> 1, videos |-> {}, srts |-> {1}]>>}

RECURSIVE CountModules(_)
CountModules(t) == IF t = <<>> THEN 0 ELSE Len(Head(t).modules) + CountModules(Tail(t))

\* the module lists of a course: the modules named by their position
WalkModules ==
    {[i \in 1..Len(ls) |-> [name |-> i, sections |-> ls[i]]] :
        ls \in SeqsOf(WalkLayouts, 0, MaxTreeModules)}

\* the trees of the specification of concat_videos
WalkTrees ==
    {t \in SeqsOf([name : {".git", "c1", "c2"}, modules : WalkModules], 1, MaxCourses) :
        /\ DistinctNames(t)
        /\ CountModules(t) <= MaxTreeModules}

\* the sequences that enumerate the set S once each: what glob may return
PermsOf(S) ==
    {f \in [1..Cardinality(S) -> S] : \A i, j \in 1..Cardinality(S) : i # j => f[i] # f[j]}

\* the order of two paths of one module as strings
PathLess(a, b) == a[1] < b[1] \/ (a[1] = b[1] /\ a[2] < b[2])

RECURSIVE InsertPath(_, _)
InsertPath(s, x) ==
    IF s = <<>> THEN <<x>>
    ELSE IF PathLess(x, s[Len(s)]) THEN Append(InsertPath(SubSeq(s, 1, Len(s) - 1), x), s[Len(s)])
    ELSE Append(s, x)

RECURSIVE SortedPaths(_)
SortedPaths(s) ==
    IF s = <<>> THEN <<>> ELSE InsertPath(SortedPaths(SubSeq(s, 1, Len(s) - 1)), s[Len(s)])

\* videos.sort(), srts.sort()
SortPaths(s) == SortedPaths(s)

\* the module is never found empty
NoVideoNever(l) == FALSE

\* len(mod_video_list) == 0
NoVideo(l) == Len(l) = 0

\* a non-zero exit raises
AfterWaitChecked(rc) == IF rc = 0 THEN "continue" ELSE "raise"

\* await proc.wait(): the return code is not looked at
AfterWait(rc) == "continue"

\* os.path.basename(video), of which the intermediate file is named
basename(path) == path[2]

\* f"/tmp/{video_name}.ts"
TempFile(path) == <<"/tmp", basename(path), ".ts">>

(***************************************************************************)
(* concat_videos (download.py 198-214)                                     *)
(***************************************************************************)
\* the call concat_videos(config): classes = next(os.walk(base_dir))[1]
CvStart(trees) ==
    /\ fs \in trees
    /\ cv_pc = "classes"
    /\ classes = fs
    /\ WalkFresh

\* "for cl in classes": a name of COMMON_SKIP_DIRS is passed over
CvSkipClass ==
    /\ cv_pc = "classes"
    /\ classes # <<>>
    /\ Head(classes).name \in COMMON_SKIP_DIRS
    /\ classes' = Tail(classes)
    /\ UNCHANGED <<fs, cv_pc, cl, modules, modVars, ffVars, ghostVars, gtVars, srtVars>>
    /\ UNCHANGED <<dlVars, mainVars>>

\* "for cl in classes": modules = next(os.walk(course_dir))[1]
CvEnterClass ==
    /\ cv_pc = "classes"
    /\ classes # <<>>
    /\ Head(classes).name \notin COMMON_SKIP_DIRS
    /\ cl' = Head(classes).name
    /\ modules' = Head(classes).modules
    /\ classes' = Tail(classes)
    /\ cv_pc' = "modules"
    /\ seen' = seen \cup {<<Head(classes).name, Head(classes).modules[i].name>> :
                            i \in 1..Len(Head(classes).modules)}
    /\ UNCHANGED <<fs, modVars, ffVars, outputs, calls, failed, combined, raised_by,
                   gtVars, srtVars>>
    /\ UNCHANGED <<dlVars, mainVars>>

\* "for mod in modules" is over
CvNextClass ==
    /\ cv_pc = "modules"
    /\ mod_pc = "idle"
    /\ modules = <<>>
    /\ cv_pc' = "classes"
    /\ UNCHANGED <<fs, classes, cl, modules, modVars, ffVars, ghostVars, gtVars, srtVars>>
    /\ UNCHANGED <<dlVars, mainVars>>

\* "for cl in classes" is over
CvDone ==
    /\ cv_pc = "classes"
    /\ classes = <<>>
    /\ cv_pc' = "done"
    /\ UNCHANGED <<fs, classes, cl, modules, modVars, ffVars, ghostVars, gtVars, srtVars>>
    /\ UNCHANGED <<dlVars, mainVars>>

(***************************************************************************)
(* combine_module (download.py 158-195)                                    *)
(***************************************************************************)
\* await combine_module(mod, course_dir, output_class_dir): the sections
ModEnter ==
    /\ cv_pc = "modules"
    /\ mod_pc = "idle"
    /\ modules # <<>>
    /\ mod_name' = Head(modules).name
    /\ sections' = Head(modules).sections
    /\ modules' = Tail(modules)
    /\ mod_video_list' = <<>>
    /\ mod_srt_list' = <<>>
    /\ mod_pc' = "sections"
    /\ UNCHANGED <<fs, cv_pc, classes, cl, durations, ffVars, ghostVars, gtVars, srtVars>>
    /\ UNCHANGED <<dlVars, mainVars>>

\* one iteration of "for sec in sections"
ModSection ==
    /\ mod_pc = "sections"
    /\ sections # <<>>
    /\ LET sec == Head(sections)
       IN  IF sec.videos = {}
           THEN UNCHANGED <<mod_video_list, mod_srt_list>>
           ELSE \E videos \in PermsOf({<<sec.name, v>> : v \in sec.videos}),
                   globbed \in PermsOf({<<sec.name, v>> : v \in sec.srts}) :
                    /\ mod_video_list' = mod_video_list \o SortPaths(videos)
                    /\ mod_srt_list' = mod_srt_list \o SortPaths(globbed)
    /\ sections' = Tail(sections)
    /\ UNCHANGED <<mod_pc, mod_name, durations, cvVars, ffVars, ghostVars, gtVars, srtVars>>
    /\ UNCHANGED <<dlVars, mainVars>>

\* "if len(mod_video_list) == 0: return"
ModSkip ==
    /\ mod_pc = "sections"
    /\ sections = <<>>
    /\ NoVideo(mod_video_list)
    /\ mod_pc' = "idle"
    /\ combined' = combined \cup {<<cl, mod_name>>}
    /\ UNCHANGED <<mod_name, sections, mod_video_list, mod_srt_list, durations, cvVars, ffVars,
                   outputs, calls, failed, seen, raised_by, gtVars, srtVars>>
    /\ UNCHANGED <<dlVars, mainVars>>

\* durations = await ffmpeg_concat(mod_video_list, ...): the call
ModCallFfmpeg ==
    /\ mod_pc = "sections"
    /\ sections = <<>>
    /\ ~NoVideo(mod_video_list)
    /\ mod_pc' = "ffmpeg"
    /\ ff_i' = 1
    /\ temp_files' = <<>>
    /\ duration' = <<>>
    /\ calls' = calls \cup {<<cl, mod_name, "ffmpeg_concat">>}
    /\ UNCHANGED <<mod_name, sections, mod_video_list, mod_srt_list, durations, cvVars,
                   outputs, failed, seen, combined, raised_by, gtVars, srtVars>>
    /\ UNCHANGED <<dlVars, mainVars>>

(***************************************************************************)
(* ffmpeg_concat (download.py 70-121)                                      *)
(***************************************************************************)
\* one iteration of "for video in videos": the remux to the intermediate file,
\* whose exit code rc may be anything, and the probe of the video's length,
\* which raises when ffprobe fails
FfRemux ==
    /\ mod_pc = "ffmpeg"
    /\ ff_i <= Len(mod_video_list)
    /\ \E rc \in {0, 1}, probed \in BOOLEAN :
        /\ temp_files' = Append(temp_files, TempFile(mod_video_list[ff_i]))
        /\ failed' = IF rc # 0 THEN failed \cup {<<cl, mod_name>>} ELSE failed
        /\ IF AfterWait(rc) = "raise"
           THEN /\ cv_pc' = "raised"
                /\ raised_by' = "ffmpeg"
                /\ mod_pc' = "raised"
                /\ UNCHANGED <<duration, ff_i>>
           ELSE IF ~probed
           THEN /\ cv_pc' = "raised"
                /\ raised_by' = "ffmpeg.probe"
                /\ mod_pc' = "raised"
                /\ UNCHANGED <<duration, ff_i>>
           ELSE /\ duration' = Append(duration, ProbeDuration(mod_video_list[ff_i]))
                /\ ff_i' = ff_i + 1
                /\ UNCHANGED <<cv_pc, raised_by, mod_pc>>
    /\ UNCHANGED <<fs, classes, cl, modules, mod_name, sections, mod_video_list, mod_srt_list,
                   durations, outputs, calls, seen, combined, gtVars, srtVars>>
    /\ UNCHANGED <<dlVars, mainVars>>

\* the concatenation of the intermediate files into output_path, "return
\* duration", and the call of srt_concat(mod_srt_list, durations, ...)
FfConcat ==
    /\ mod_pc = "ffmpeg"
    /\ ff_i > Len(mod_video_list)
    /\ \E rc \in {0, 1}, written \in BOOLEAN :
        /\ rc = 0 => written
        /\ outputs' = IF written THEN outputs \cup {<<cl, mod_name, "mp4">>} ELSE outputs
        /\ failed' = IF rc # 0 THEN failed \cup {<<cl, mod_name>>} ELSE failed
        /\ IF AfterWait(rc) = "raise"
           THEN /\ cv_pc' = "raised"
                /\ raised_by' = "ffmpeg"
                /\ mod_pc' = "raised"
                /\ UNCHANGED <<durations, calls, srtVars>>
           ELSE /\ durations' = duration
                /\ mod_pc' = "srt"
                /\ calls' = calls \cup {<<cl, mod_name, "srt_concat">>}
                /\ srt_pc' = "loop"
                /\ srts' = [i \in 1..Len(mod_srt_list) |-> ParsedFile(i, SrtContent(mod_srt_list[i]))]
                /\ srt_durations' = duration
                /\ srt_i' = 1
                /\ offset' = 0
                /\ all_subs' = <<>>
                /\ srt_file' = None
                /\ UNCHANGED <<cv_pc, raised_by>>
    /\ UNCHANGED <<fs, classes, cl, modules, mod_name, sections, mod_video_list, mod_srt_list,
                   ffVars, seen, combined, gtVars>>
    /\ UNCHANGED <<dlVars, mainVars>>

\* srt_concat has returned: gt_gen(durations, ...) is called
ModCallGt ==
    /\ mod_pc = "srt"
    /\ srt_pc = "done"
    /\ outputs' = outputs \cup {<<cl, mod_name, "srt">>}
    /\ calls' = calls \cup {<<cl, mod_name, "gt_gen">>}
    /\ mod_pc' = "gt"
    /\ gt_pc' = "loop"
    /\ gt_arg' = durations
    /\ gt_durations' = DropLast(durations)
    /\ gt_t' = 0
    /\ gt_dict' = EmptyMap
    /\ gt_file' = None
    /\ UNCHANGED <<mod_name, sections, mod_video_list, mod_srt_list, durations, cvVars, ffVars,
                   failed, seen, combined, raised_by, srtVars>>
    /\ UNCHANGED <<dlVars, mainVars>>

\* gt_gen has returned, and combine_module returns
ModReturn ==
    /\ mod_pc = "gt"
    /\ gt_pc = "done"
    /\ outputs' = outputs \cup {<<cl, mod_name, "json">>}
    /\ combined' = combined \cup {<<cl, mod_name>>}
    /\ mod_pc' = "idle"
    /\ UNCHANGED <<mod_name, sections, mod_video_list, mod_srt_list, durations, cvVars, ffVars,
                   calls, failed, seen, raised_by, gtVars, srtVars>>
    /\ UNCHANGED <<dlVars, mainVars>>

WalkNext ==
    \/ CvSkipClass \/ CvEnterClass \/ CvNextClass \/ CvDone
    \/ ModEnter \/ ModSection \/ ModSkip \/ ModCallFfmpeg
    \/ FfRemux \/ FfConcat
    \/ SrtLoop \/ SrtWrite
    \/ ModCallGt
    \/ GtLoop \/ GtWrite
    \/ ModReturn

\* combine_module on every layout of one module
ModInit == CvStart(ModTrees) /\ GtIdle /\ SrtIdle /\ DlIdle /\ MainIdle

SpecMod == ModInit /\ [][WalkNext]_vars

\* concat_videos on trees of several courses and modules
WalkInit == CvStart(WalkTrees) /\ GtIdle /\ SrtIdle /\ DlIdle /\ MainIdle

SpecWalk == WalkInit /\ [][WalkNext]_vars

(***************************************************************************)
(* download_videos (download.py 29-68).  A string is held as the sequence  *)
(* of its characters, so that "'-' not in k" and strip('\n') are computed. *)
(* The configuration is the sequence of the items of the dict, in its      *)
(* order; the values of the keys other than FLAGS are strings.             *)
(***************************************************************************)
COURSERA_DL == <<"c", "o", "u", "r", "s", "e", "r", "a", "-", "d", "l">>
FLAGS == <<"F", "L", "A", "G", "S">>
K_PATH == <<"-", "-", "p", "a", "t", "h">>
K_USER == <<"-", "u">>
K_OUTPUT_PATH == <<"o", "u", "t", "p", "u", "t", "_", "p", "a", "t", "h">>

\* the items a configuration may hold
ConfigItems ==
    [k : {K_PATH, K_USER, K_OUTPUT_PATH}, v : {<<"x">>, <<"y">>}]
    \cup
    [k : {FLAGS}, v : {<<>>, <<(<<"-", "-", "s", "l">>)>>,
                       <<(<<"-", "-", "s", "l">>), (<<"-", "-", "j", "o", "b", "s">>)>>}]

\* the configurations: the keys of a dict are distinct
Configs ==
    {c \in SeqsOf(ConfigItems, 0, MaxKeys) :
        \A i, j \in 1..Len(c) : i # j => c[i].k # c[j].k}

\* the lines f.readlines() may return: a line ends with a newline, but for the
\* last one of a file that does not
ListFiles ==
    {l \in SeqsOf({<<"m", "l", "\n">>, <<"a", "i">>, <<"\n">>}, 0, MaxIds) :
        \A i \in 1..Len(l) : i < Len(l) => l[i][Len(l[i])] = "\n"}

\* '-' in k
HasDash(k) == \E i \in 1..Len(k) : k[i] = "-"

RECURSIVE StripLeft(_)
StripLeft(str) == IF str # <<>> /\ Head(str) = "\n" THEN StripLeft(Tail(str)) ELSE str

RECURSIVE StripRight(_)
StripRight(str) ==
    IF str # <<>> /\ str[Len(str)] = "\n" THEN StripRight(SubSeq(str, 1, Len(str) - 1)) ELSE str

\* c.strip('\n')
strip(str) == StripRight(StripLeft(str))

\* every key other than FLAGS is passed on
ItemArgsAnyKey(k, v) == IF k # FLAGS THEN <<k, v>> ELSE v

\* what one item of the configuration adds to args
ItemArgs(k, v) ==
    IF k # FLAGS
    THEN IF ~HasDash(k) THEN <<>> ELSE <<k, v>>
    ELSE v

\* the call download_videos(config, video_file): args = ['coursera-dl']
DlInit ==
    /\ GtIdle /\ SrtIdle /\ WalkIdle /\ MainIdle
    /\ dl_pc = "config"
    /\ config \in Configs
    /\ dl_items = config
    /\ args = <<COURSERA_DL>>
    /\ dl_classes \in ListFiles
    /\ dl_stdout = 0
    /\ return_code = None

\* one iteration of "for k, v in config.items()"
DlItem ==
    /\ dl_pc = "config"
    /\ dl_items # <<>>
    /\ args' = args \o ItemArgs(Head(dl_items).k, Head(dl_items).v)
    /\ dl_items' = Tail(dl_items)
    /\ UNCHANGED <<dl_pc, config, dl_classes, dl_stdout, return_code>>
    /\ UNCHANGED <<gtVars, srtVars, walkVars, mainVars>>

\* the list file is read, the course identifiers are appended and the
\* downloader is started; it will print some number of lines
DlSpawn ==
    /\ dl_pc = "config"
    /\ dl_items = <<>>
    /\ args' = args \o [i \in 1..Len(dl_classes) |-> strip(dl_classes[i])]
    /\ dl_stdout' \in 0..MaxLines
    /\ dl_pc' = "reading"
    /\ UNCHANGED <<config, dl_items, dl_classes, return_code>>
    /\ UNCHANGED <<gtVars, srtVars, walkVars, mainVars>>

\* line = await proc.stdout.readline(): a line, or nothing at the end of the
\* stream, which ends the loop
DlReadLine ==
    /\ dl_pc = "reading"
    /\ IF dl_stdout > 0
       THEN dl_stdout' = dl_stdout - 1 /\ UNCHANGED dl_pc
       ELSE dl_pc' = "waiting" /\ UNCHANGED dl_stdout
    /\ UNCHANGED <<config, dl_items, args, dl_classes, return_code>>
    /\ UNCHANGED <<gtVars, srtVars, walkVars, mainVars>>

\* await proc.wait(); return_code = proc.returncode
DlWait ==
    /\ dl_pc = "waiting"
    /\ return_code' \in {0, 1}
    /\ dl_pc' = "done"
    /\ UNCHANGED <<config, dl_items, args, dl_classes, dl_stdout>>
    /\ UNCHANGED <<gtVars, srtVars, walkVars, mainVars>>

DlNext == DlItem \/ DlSpawn \/ DlReadLine \/ DlWait

SpecDl == DlInit /\ [][DlNext]_vars

(***************************************************************************)
(* main (download.py 238-253) and run (download.py 25-27)                  *)
(***************************************************************************)
Modes == {"get", "concat", "all"}

\* main(mode, config_file, video_list): the configuration is loaded
MainInit ==
    /\ GtIdle /\ SrtIdle /\ DlIdle
    /\ fs \in WalkTrees
    /\ cv_pc = "idle"
    /\ classes = <<>>
    /\ WalkFresh
    /\ main_pc = "dispatch"
    /\ mode \in Modes
    /\ main_error = None

\* mode == 'get': the name ilick of "ilick.echo(...)" is not defined, and the
\* line after it, run(download_videos(config, video_list)), is not reached
MainGet ==
    /\ main_pc = "dispatch"
    /\ mode = "get"
    /\ main_pc' = "raised"
    /\ main_error' = "NameError"
    /\ UNCHANGED <<mode, gtVars, srtVars, walkVars, dlVars>>

\* mode == 'concat': run(concat_videos(config))
MainConcat ==
    /\ main_pc = "dispatch"
    /\ mode = "concat"
    /\ main_pc' = "running"
    /\ cv_pc' = "classes"
    /\ classes' = fs
    /\ UNCHANGED <<mode, main_error, fs, cl, modules, modVars, ffVars, ghostVars,
                   gtVars, srtVars, dlVars>>

\* any other mode: run([download_videos(...), concat_videos(...)]).  The two
\* coroutine objects are made, neither is started, and
\* loop.run_until_complete raises TypeError on the list, which is no awaitable
MainAll ==
    /\ main_pc = "dispatch"
    /\ mode \notin {"get", "concat"}
    /\ main_pc' = "raised"
    /\ main_error' = "TypeError"
    /\ UNCHANGED <<mode, gtVars, srtVars, walkVars, dlVars>>

\* loop.run_until_complete(awt) returns, or raises what the coroutine raised
MainReturn ==
    /\ main_pc = "running"
    /\ cv_pc \in {"done", "raised"}
    /\ main_pc' = IF cv_pc = "done" THEN "done" ELSE "raised"
    /\ main_error' = IF cv_pc = "done" THEN None ELSE "ffmpeg.Error"
    /\ UNCHANGED <<mode, gtVars, srtVars, walkVars, dlVars>>

MainNext == MainGet \/ MainConcat \/ MainAll \/ MainReturn \/ WalkNext

SpecMain == MainInit /\ [][MainNext]_vars

(***************************************************************************)
(* The tree, looked up by course and module name.                          *)
(***************************************************************************)
FsModuleIds ==
    UNION {{<<fs[i].name, fs[i].modules[k].name>> : k \in 1..Len(fs[i].modules)} :
             i \in 1..Len(fs)}

FsSections(c, m) ==
    LET i == CHOOSE x \in 1..Len(fs) : fs[x].name = c
        k == CHOOSE x \in 1..Len(fs[i].modules) : fs[i].modules[x].name = m
    IN  fs[i].modules[k].sections

FsHasVideo(c, m) == \E x \in 1..Len(FsSections(c, m)) : FsSections(c, m)[x].videos # {}

\* combine_module has gathered the lists of the module it is in
ListsComplete == mod_pc \in {"ffmpeg", "srt", "gt"}

(***************************************************************************)
(* C3                                                                      *)
(***************************************************************************)
\* C3: in the subtitle file of a module, of whatever layout, each cue is
\* offset by the cumulative duration of the videos that precede the cue's own
\* video (the video of the same section and stem) in the module's video list,
\* its times written as whole milliseconds.
C3_Original ==
    (mod_pc \in {"srt", "gt"} /\ srt_pc = "done") =>
        \A n \in 1..Len(srt_file) :
            LET j == srt_file[n].src[1]
                cue == srts[j][srt_file[n].src[2]]
            IN  \A v \in 1..Len(mod_video_list) :
                    mod_video_list[v] = mod_srt_list[j] =>
                        /\ srt_file[n].start = (cue.start + PrefixSum(durations, v - 1)) \div 1000
                        /\ srt_file[n].end = (cue.end + PrefixSum(durations, v - 1)) \div 1000

(***************************************************************************)
(* C5                                                                      *)
(***************************************************************************)
\* C5: for a module none of whose sections holds a *.mp4 file, combine_module
\* calls neither ffmpeg_concat, srt_concat nor gt_gen and no <module>.mp4,
\* <module>.srt or <module>.json is written.
C5_EmptyModuleSkipped ==
    \A id \in FsModuleIds :
        ~FsHasVideo(id[1], id[2]) =>
            /\ \A c \in calls : <<c[1], c[2]>> # id
            /\ \A o \in outputs : <<o[1], o[2]>> # id

\* combine_module has returned from a module that has sections, none with a
\* video
C5_Witness ==
    \E id \in combined :
        /\ ~FsHasVideo(id[1], id[2])
        /\ Len(FsSections(id[1], id[2])) = 2
        /\ \E x \in 1..2 : FsSections(id[1], id[2])[x].srts # {}

(***************************************************************************)
(* C6                                                                      *)
(***************************************************************************)
SortedByName(l) == \A i, j \in 1..Len(l) : i < j => l[i][2] <= l[j][2]

SortedByPath(l) == \A i, j \in 1..Len(l) : i < j => ~PathLess(l[j], l[i])

\* C6: the videos handed to the video merge, and the subtitle files handed to
\* the subtitle merge, are in lexicographic order of the files' names across
\* the module (read as the base names, or as the paths), whatever the order
\* the sections are enumerated in.
C6_Original ==
    ListsComplete =>
        /\ SortedByName(mod_video_list) \/ SortedByPath(mod_video_list)
        /\ SortedByName(mod_srt_list) \/ SortedByPath(mod_srt_list)

(***************************************************************************)
(* C7                                                                      *)
(***************************************************************************)
\* the modules of the courses that are not skipped
FsToProcess == {id \in FsModuleIds : id[1] \notin COMMON_SKIP_DIRS}

\* C7: a non-zero exit of a remux or of the final concatenation raises
\* nothing and does not stop the traversal: nothing but the probe of a
\* video's length raises, and when concat_videos is done, whatever has failed,
\* combine_module has returned from every module of every course not skipped.
C7_FailureNotFatal ==
    /\ raised_by # "ffmpeg"
    /\ cv_pc = "raised" => raised_by = "ffmpeg.probe"
    /\ cv_pc = "done" => seen = FsToProcess /\ combined = FsToProcess

\* the traversal is done, the media tool failed in the first module of a
\* course and the second module has its three files all the same
C7_Witness ==
    /\ cv_pc = "done"
    /\ \E c \in {"c1", "c2"} :
        /\ <<c, 1>> \in failed
        /\ <<c, 2>> \in combined
        /\ {<<c, 2, "mp4">>, <<c, 2, "srt">>, <<c, 2, "json">>} \subseteq outputs

(***************************************************************************)
(* C10                                                                     *)
(***************************************************************************)
\* C10: two distinct input videos of an invocation of ffmpeg_concat never
\* have the same intermediate file.
C10_Original ==
    \A i, j \in 1..Len(temp_files) :
        mod_video_list[i] # mod_video_list[j] => temp_files[i] # temp_files[j]

(***************************************************************************)
(* C4                                                                      *)
(***************************************************************************)
\* C4: when main has returned or raised, in mode 'get' the downloader has run
\* and the combine stage has not; in mode 'concat' the combine stage has run
\* (to its end, when nothing raised) and the downloader has not; in mode
\* 'all' both have run to their end.
C4_Original ==
    main_pc \in {"done", "raised"} =>
        /\ mode = "get" => dl_pc = "done" /\ cv_pc = "idle"
        /\ mode = "concat" => /\ dl_pc = "idle"
                              /\ cv_pc # "idle"
                              /\ main_pc = "done" => cv_pc = "done"
        /\ mode = "all" => dl_pc = "done" /\ cv_pc = "done"

(***************************************************************************)
(* C9                                                                      *)
(***************************************************************************)
\* the command line is whole: the downloader has been started
ArgsComplete == dl_pc \in {"reading", "waiting", "done"}

\* what the items before item i add to args, where an item adds what Adds says
RECURSIVE AddedBefore(_, _)
AddedBefore(Adds(_), i) == IF i = 1 THEN 0 ELSE AddedBefore(Adds, i - 1) + Adds(config[i - 1])

\* args is 'coursera-dl', then for each item of the configuration what Adds
\* says it adds, its key and its value for a key other than FLAGS and the
\* flags of FLAGS as they are, then the lines of the list file without their
\* newlines
ArgsAre(Adds(_)) ==
    LET n == Len(config)
        total == AddedBefore(Adds, n + 1)
    IN  /\ Len(args) = 1 + total + Len(dl_classes)
        /\ args[1] = COURSERA_DL
        /\ \A i \in 1..n :
            LET at == 1 + AddedBefore(Adds, i)
            IN  IF config[i].k = FLAGS
                THEN SubSeq(args, at + 1, at + Len(config[i].v)) = config[i].v
                ELSE Adds(config[i]) = 2 =>
                        /\ args[at + 1] = config[i].k
                        /\ args[at + 2] = config[i].v
        /\ \A i \in 1..Len(dl_classes) :
            /\ args[1 + total + i] = strip(dl_classes[i])
            /\ \A c \in 1..Len(args[1 + total + i]) : args[1 + total + i][c] # "\n"

\* every key other than FLAGS adds its key and its value
AddsAnyKey(item) == IF item.k = FLAGS THEN Len(item.v) ELSE 2

\* a key other than FLAGS adds its key and its value when it holds a '-'
AddsDashKey(item) ==
    IF item.k = FLAGS THEN Len(item.v)
    ELSE IF \E c \in 1..Len(item.k) : item.k[c] = "-" THEN 2 ELSE 0

\* C9 (as stated): every configuration key other than FLAGS contributes its
\* key followed by its value, FLAGS's flags are appended verbatim, and the
\* course identifiers follow as trailing arguments.
C9_Original == ArgsComplete => ArgsAre(AddsAnyKey)

\* C9 (amended): every configuration key other than FLAGS that holds a '-'
\* contributes its key followed by its value, a key without a '-' contributes
\* nothing, FLAGS's flags are appended verbatim where FLAGS stands in the
\* configuration, and the lines of the list file, without their newlines,
\* follow as trailing arguments.
C9_DashKeys == ArgsComplete => ArgsAre(AddsDashKey)

\* a command line of a key with a '-', output_path, two raw flags and two
\* course identifiers
C9_Witness ==
    /\ ArgsComplete
    /\ Len(config) = 3
    /\ \E i \in 1..3 : config[i].k = K_OUTPUT_PATH
    /\ \E i \in 1..3 : config[i].k = FLAGS /\ Len(config[i].v) = 2
    /\ \E i \in 1..3 : config[i].k = K_USER
    /\ Len(dl_classes) = 2
    /\ Len(args) = 7

====
